---- MODULE Spec2Model ----
(***************************************************************************)
(* Model of the catalog API of src/index.js (the revision with the movie   *)
(* router, lines 295-689) and of src/middlewares/authMiddleware.js.        *)
(*                                                                         *)
(* The database collections are partial functions from document id to      *)
(* document, the photos directory is a set of file names, and every        *)
(* handler is one action per database round trip: a handler with two       *)
(* awaited database operations is two actions joined by an entry of        *)
(* `inflight`, so that other requests may run between its awaits.          *)
(*                                                                         *)
(* JavaScript values of request bodies are strings; the JavaScript number  *)
(* n is written "#n", so that "0" (a truthy string) and "#0" (the falsy    *)
(* number 0) stay distinct.  Ids, file names and user ids are naturals,    *)
(* with 0 for null / absent.                                               *)
(***************************************************************************)
EXTENDS Naturals, FiniteSets, Sequences, TLC

VARIABLES
    users,       \* User collection: id -> [email, password]
    clock,       \* Math.floor(Date.now() / 1000)
    issued,      \* tokens handed out by /login, held by clients
    categories,  \* Category collection: id -> [name, userId]
    products,    \* Product collection: id -> document
    movies,      \* Movie collection: id -> document
    photos,      \* file names present in the photos directory
    nextId,      \* [cat, prod, movie, file]: next fresh id of each kind
    inflight,    \* requests suspended at an await: slot -> record
    res,         \* the response sent by the last step (op "none" if none)
    createdBy,   \* history: [cat, prod, movie] -> (id -> owner at creation)
    linked,      \* history: file names that were ever stored on a document
    toggles      \* history: product id -> completed toggle-active requests, mod 2

vars == <<users, clock, issued, categories, products, movies, photos,
          nextId, inflight, res, createdBy, linked, toggles>>

----------------------------------------------------------------------------
(* Bounds of the model.                                                    *)

MaxUsers      == 2
MaxTokens     == 2
MaxDocs       == 2
MaxFiles      == 2
MaxInflight   == 2

----------------------------------------------------------------------------
(* JavaScript values.                                                      *)

Undefined == "undefined"

\* !v of JavaScript, for the values a body field can take
Falsy(v) == v \in {Undefined, "", "#0"}

\* a || b
Or(a, b) == IF Falsy(a) THEN b ELSE a

----------------------------------------------------------------------------
(* bcrypt and jsonwebtoken, as the handlers use them.                      *)

\* jwt.sign(..., { expiresIn: "1h" }): exp = iat + 3600 seconds
ExpiresIn == 3600

\* the salts bcrypt may draw
Salts == {1, 2}

\* bcrypt.hash(password, 10): a salted one-way hash; the salt is kept in it
BcryptHash(password, salt) == [salt |-> salt, of |-> password]

\* bcrypt.compare(password, hash): rehash with the stored salt and compare
BcryptCompare(password, hash) == BcryptHash(password, hash.salt) = hash

\* jwt.sign({ id }, SECRET_KEY, { expiresIn: "1h" }) at time now
JwtSign(id, now) ==
    [id |-> id, iat |-> now, exp |-> now + ExpiresIn, sig |-> "secret"]

\* jwt.verify with the expiry compared by > : a token still valid at exp
JwtVerifyLate(token, now) ==
    /\ token.sig = "secret"
    /\ ~(now > token.exp)

\* jwt.verify(token, JWT_SECRET) at time now: TRUE iff it does not throw.
\* jsonwebtoken throws TokenExpiredError when clockTimestamp >= payload.exp.
JwtVerify(token, now) ==
    /\ token.sig = "secret"
    /\ ~(now >= token.exp)

NoToken == [id |-> 0, iat |-> 0, exp |-> 0, sig |-> "none"]

\* a token that was not signed with the secret
ForgedToken == [id |-> 1, iat |-> 0, exp |-> ExpiresIn, sig |-> "forged"]

\* the Authorization headers a client may send
Headers ==
    {[scheme |-> "none", token |-> NoToken],
     [scheme |-> "Basic", token |-> NoToken],
     [scheme |-> "Bearer", token |-> ForgedToken]}
    \cup {[scheme |-> "Bearer", token |-> t] : t \in issued}

\* authMiddleware: the status it answers (0 when it calls next()) and req.userId
AuthMiddleware(header, now) ==
    IF header.scheme # "Bearer"
    THEN [status |-> 401, userId |-> 0]
    ELSE IF JwtVerify(header.token, now)
         THEN [status |-> 0, userId |-> header.token.id]
         ELSE [status |-> 403, userId |-> 0]

----------------------------------------------------------------------------
(* Responses.                                                              *)

\* an object without fields
Empty == [x \in {} |-> 0]

\* the fields of req.body that the request supplied
Supplied(body) ==
    [f \in {g \in DOMAIN body : body[g] # Undefined} |-> body[f]]

\* sent holds the fields the answered update request supplied
Response(op, status, userId, id, msg) ==
    [op |-> op, status |-> status, userId |-> userId, id |-> id, msg |-> msg,
     list |-> {}, activo |-> FALSE, token |-> NoToken, sent |-> Empty]

NoResponse == Response("none", 0, 0, 0, "")

\* the 401 / 403 answer of authMiddleware on route op
Rejected(op, auth) ==
    Response(op, auth.status, 0, 0,
             IF auth.status = 401 THEN "Acceso no autorizado"
                                  ELSE "Token invalido o expirado")

----------------------------------------------------------------------------
(* Collections.                                                            *)

\* the function f without the key k
Without(f, k) == [x \in DOMAIN f \ {k} |-> f[x]]

\* the function f with key k (new or not) bound to v
With(f, k, v) == [x \in DOMAIN f \cup {k} |-> IF x = k THEN v ELSE f[x]]


Idle == [pc |-> "idle"]

catalogUnchanged == UNCHANGED <<categories, products, movies, photos, nextId,
                                inflight, createdBy, linked, toggles>>

----------------------------------------------------------------------------
(* Users: POST /register and POST /login.                                  *)

Emails == {Undefined, "a@x", "b@x"}
Passwords == {Undefined, "p", "q"}

\* User.findOne({ email })
FindUserByEmail(email) ==
    {u \in DOMAIN users : users[u].email = email}

\* save() of a User collection without the unique index on email
UserSaveNoIndex(email) == ~Falsy(email)

\* new User({ email, password }).save(): required email, unique index on email
UserSaveOk(email) ==
    /\ ~Falsy(email)
    /\ FindUserByEmail(email) = {}

Register(email, password, salt) ==
    /\ IF password = Undefined \/ ~UserSaveOk(email)
       THEN /\ res' = Response("register", 500, 0, 0, "Error al registrar usuario")
            /\ UNCHANGED users
       ELSE LET id == Cardinality(DOMAIN users) + 1 IN
            /\ id <= MaxUsers
            /\ users' = With(users, id,
                             [email |-> email,
                              password |-> BcryptHash(password, salt)])
            /\ res' = Response("register", 201, 0, id, "Usuario creado correctamente")
    /\ UNCHANGED <<clock, issued>>
    /\ catalogUnchanged

\* the answer of /login, given the users found by email
LoginAnswer(found, password) ==
    IF found = {}
    THEN Response("login", 400, 0, 0, "Usuario no encontrado")
    ELSE LET id == CHOOSE u \in found : TRUE IN
         IF password = Undefined
         THEN Response("login", 500, 0, id, "Error en el login")
         ELSE IF ~BcryptCompare(password, users[id].password)
              THEN Response("login", 400, 0, id, "Credenciales incorrectas")
              ELSE [Response("login", 200, 0, id, "")
                      EXCEPT !.token = JwtSign(id, clock)]

Login(email, password) ==
    /\ res' = LoginAnswer(FindUserByEmail(email), password)
    /\ res'.status = 200 => Cardinality(issued) < MaxTokens
    /\ issued' = IF res'.status = 200 THEN issued \cup {res'.token} ELSE issued
    /\ UNCHANGED <<users, clock>>
    /\ catalogUnchanged

\* the instants at which the model lets requests arrive: around the issue of
\* a token and around the end of its hour
Instants == {0, 1, ExpiresIn - 1, ExpiresIn, ExpiresIn + 1}

\* time passes between requests
Tick(t) ==
    /\ t > clock
    /\ clock' = t
    /\ res' = NoResponse
    /\ UNCHANGED <<users, issued>>
    /\ catalogUnchanged

----------------------------------------------------------------------------
(* Requests at an await.                                                   *)

Slots == 1 .. MaxInflight

\* a request that suspends takes the lowest idle slot
FreeSlot(slot) ==
    /\ slot \in Slots
    /\ inflight[slot] = Idle
    /\ \A s \in Slots : s < slot => inflight[s] # Idle

Suspend(slot, pc, op, userId, id, set) ==
    [inflight EXCEPT ![slot] =
        [pc |-> pc, op |-> op, userId |-> userId, id |-> id, set |-> set]]

Resume(slot) == [inflight EXCEPT ![slot] = Idle]

\* the document doc with the paths of set assigned
Apply(doc, set) ==
    [f \in DOMAIN doc |-> IF f \in DOMAIN set THEN set[f] ELSE doc[f]]

\* the paths of the loaded document doc that the assignments in next modified
Modified(doc, next) ==
    [f \in {g \in DOMAIN doc : next[g] # doc[g]} |-> next[f]]

\* multer's upload.single("image"): the file is written under a fresh name
\* (Date.now() + "-" + originalname) before the next middleware runs
Upload(file) == IF file THEN photos \cup {nextId.file} ELSE photos

FileName(file) == IF file THEN nextId.file ELSE 0

Fresh(kind) == [nextId EXCEPT ![kind] = @ + 1]

\* the model stops creating documents once MaxDocs were created in all
CanCreate == nextId.cat + nextId.prod + nextId.movie < MaxDocs + 3

FreshFile(file, ids) ==
    IF file THEN [ids EXCEPT !.file = @ + 1] ELSE ids

Record(kind, id, userId) ==
    [createdBy EXCEPT ![kind] = With(@, id, userId)]

----------------------------------------------------------------------------
(* Categories (lines 430-483).                                             *)

CategoryNames == {Undefined, "", "a"}
CategoryRenames == {Undefined, "", "b"}

\* Category.find({ userId })
FindCategories(userId) ==
    {c \in DOMAIN categories : categories[c].userId = userId}

\* Category.findOne({ _id, userId }), as findOneAndUpdate / findOneAndDelete match
FindCategory(id, userId) ==
    {c \in DOMAIN categories : c = id /\ categories[c].userId = userId}

\* POST /categories
CategoriesPost(header, name) ==
    LET auth == AuthMiddleware(header, clock) IN
    /\ IF auth.status # 0
       THEN /\ res' = Rejected("categoriesPost", auth)
            /\ UNCHANGED <<categories, nextId, createdBy>>
       ELSE IF Falsy(name)
       THEN \* name is required: save() rejects, the catch answers 500
            /\ res' = Response("categoriesPost", 500, auth.userId, 0,
                               "Error al crear categoria")
            /\ UNCHANGED <<categories, nextId, createdBy>>
       ELSE LET id == nextId.cat IN
            /\ CanCreate
            /\ categories' = With(categories, id,
                                  [name |-> name, userId |-> auth.userId])
            /\ nextId' = Fresh("cat")
            /\ createdBy' = Record("cat", id, auth.userId)
            /\ res' = Response("categoriesPost", 201, auth.userId, id, "")
    /\ UNCHANGED <<users, clock, issued, products, movies, photos, inflight,
                   linked,
                   toggles>>

\* GET /categories
CategoriesGet(header) ==
    LET auth == AuthMiddleware(header, clock) IN
    /\ res' = IF auth.status # 0
              THEN Rejected("categoriesGet", auth)
              ELSE [Response("categoriesGet", 200, auth.userId, 0, "")
                      EXCEPT !.list = FindCategories(auth.userId)]
    /\ UNCHANGED <<users, clock, issued,
                   toggles>>
    /\ catalogUnchanged

\* PUT /categories/:id : findOneAndUpdate({ _id, userId }, { name }); an
\* undefined name is dropped from the update, validators do not run
CategoriesPut(header, id, name) ==
    LET auth == AuthMiddleware(header, clock) IN
    /\ IF auth.status # 0
       THEN /\ res' = Rejected("categoriesPut", auth)
            /\ UNCHANGED categories
       ELSE IF FindCategory(id, auth.userId) = {}
       THEN /\ res' = Response("categoriesPut", 404, auth.userId, id,
                               "Categoria no encontrada")
            /\ UNCHANGED categories
       ELSE /\ categories' =
                  [categories EXCEPT ![id] =
                      Apply(@, IF name = Undefined THEN Empty
                                                   ELSE [name |-> name])]
            /\ res' = [Response("categoriesPut", 200, auth.userId, id, "")
                         EXCEPT !.sent = Supplied([name |-> name])]
    /\ UNCHANGED <<users, clock, issued, products, movies, photos, nextId,
                   inflight, createdBy, linked,
                   toggles>>

\* DELETE /categories/:id, up to the first await: findOneAndDelete
CategoriesDeleteFind(slot, header, id) ==
    LET auth == AuthMiddleware(header, clock) IN
    /\ IF auth.status # 0
       THEN /\ res' = Rejected("categoriesDelete", auth)
            /\ UNCHANGED <<categories, inflight>>
       ELSE IF FindCategory(id, auth.userId) = {}
       THEN /\ res' = Response("categoriesDelete", 404, auth.userId, id,
                               "Categoria no encontrada")
            /\ UNCHANGED <<categories, inflight>>
       ELSE /\ FreeSlot(slot)
            /\ categories' = Without(categories, id)
            /\ inflight' = Suspend(slot, "deleteMany", "categoriesDelete",
                                   auth.userId, id, Empty)
            /\ res' = NoResponse
    /\ UNCHANGED <<users, clock, issued, products, movies, photos, nextId,
                   createdBy, linked,
                   toggles>>

\* Product.deleteMany({ categoryId, userId }) reaches the database
CategoriesDeleteMany(slot) ==
    LET r == inflight[slot] IN
    /\ r.pc = "deleteMany"
    /\ products' = [p \in {q \in DOMAIN products :
                             ~(products[q].categoryId = r.id
                               /\ products[q].userId = r.userId)}
                      |-> products[p]]
    /\ inflight' = [inflight EXCEPT ![slot].pc = "respond"]
    /\ res' = NoResponse
    /\ UNCHANGED <<users, clock, issued, categories, movies, photos, nextId,
                   createdBy, linked,
                   toggles>>

\* the await of deleteMany resumes: res.json({ message })
CategoriesDeleteRespond(slot) ==
    LET r == inflight[slot] IN
    /\ r.pc = "respond"
    /\ inflight' = Resume(slot)
    /\ res' = Response("categoriesDelete", 200, r.userId, r.id,
                       "Categoria eliminada")
    /\ UNCHANGED <<users, clock, issued, categories, products, movies, photos,
                   nextId, createdBy, linked,
                   toggles>>

----------------------------------------------------------------------------
(* Products (lines 486-585).                                               *)

FullProduct == [name |-> "n1", description |-> "d1", price |-> "5"]

\* the text fields of the bodies of POST /products
ProductBodies ==
    {[name |-> Undefined, description |-> Undefined, price |-> Undefined],
     FullProduct}

\* the text fields of the bodies of PUT /products/:id : a JSON body with an
\* empty name and the number 0 as price, and a form with a name and a price
ProductUpdates ==
    {[name |-> "", description |-> Undefined, price |-> "#0"],
     [name |-> "n2", description |-> Undefined, price |-> "7"]}

\* the cast of the schema type Number, on the values the bodies carry
CastNumber(v) ==
    CASE v = "5" -> "#5"
      [] v = "7" -> "#7"
      [] v = "0" -> "#0"
      [] OTHER -> v

\* Product.find({ categoryId, userId })
FindProducts(categoryId, userId) ==
    {p \in DOMAIN products : /\ products[p].categoryId = categoryId
                             /\ products[p].userId = userId}

\* Product.findOne({ _id, userId })
FindProduct(id, userId) ==
    {p \in DOMAIN products : p = id /\ products[p].userId = userId}

\* POST /products : upload.single("image") runs before authMiddleware
ProductsPost(header, body, file, categoryId) ==
    LET auth == AuthMiddleware(header, clock) IN
    /\ file => nextId.file <= MaxFiles
    /\ photos' = Upload(file)
    /\ IF auth.status # 0
       THEN /\ res' = Rejected("productsPost", auth)
            /\ nextId' = FreshFile(file, nextId)
            /\ UNCHANGED <<products, createdBy, linked>>
       ELSE LET id == nextId.prod IN
            /\ CanCreate
            /\ products' = With(products, id,
                   [name |-> body.name,
                    description |-> body.description,
                    price |-> CastNumber(body.price),
                    image |-> FileName(file),
                    activo |-> TRUE,
                    categoryId |-> categoryId,
                    userId |-> auth.userId])
            /\ nextId' = FreshFile(file, Fresh("prod"))
            /\ createdBy' = Record("prod", id, auth.userId)
            /\ linked' = IF file THEN linked \cup {nextId.file} ELSE linked
            /\ res' = Response("productsPost", 201, auth.userId, id, "")
    /\ UNCHANGED <<users, clock, issued, categories, movies, inflight,
                   toggles>>

\* GET /products/:categoryId
ProductsGet(header, categoryId) ==
    LET auth == AuthMiddleware(header, clock) IN
    /\ res' = IF auth.status # 0
              THEN Rejected("productsGet", auth)
              ELSE [Response("productsGet", 200, auth.userId, categoryId, "")
                      EXCEPT !.list = FindProducts(categoryId, auth.userId)]
    /\ UNCHANGED <<users, clock, issued,
                   toggles>>
    /\ catalogUnchanged

\* the assignments of PUT /products/:id to the loaded document
ProductAssign(product, body, image) ==
    [product EXCEPT
        !.name = Or(body.name, product.name),
        !.description = Or(body.description, product.description),
        !.price = CastNumber(Or(body.price, product.price)),
        !.image = image]

\* PUT /products/:id, up to the await of save(): upload.single("image") runs
\* before authMiddleware; with a file, the old image is joined to the photos
\* path (a TypeError when it is null) and unlinked
ProductsPutFind(slot, header, id, body, file) ==
    LET auth == AuthMiddleware(header, clock)
        product == products[id]
    IN
    /\ file => nextId.file <= MaxFiles
    /\ nextId' = FreshFile(file, nextId)
    /\ IF auth.status # 0
       THEN /\ res' = Rejected("productsPut", auth)
            /\ photos' = Upload(file)
            /\ UNCHANGED inflight
       ELSE IF FindProduct(id, auth.userId) = {}
       THEN /\ res' = Response("productsPut", 404, auth.userId, id,
                               "Producto no encontrado")
            /\ photos' = Upload(file)
            /\ UNCHANGED inflight
       ELSE IF file /\ product.image = 0
       THEN /\ res' = Response("productsPut", 500, auth.userId, id,
                               "Error al actualizar producto")
            /\ photos' = Upload(file)
            /\ UNCHANGED inflight
       ELSE /\ FreeSlot(slot)
            /\ photos' = IF file THEN Upload(file) \ {product.image}
                                 ELSE photos
            /\ inflight' =
                  [Suspend(slot, "save", "productsPut", auth.userId, id,
                       Modified(product,
                           ProductAssign(product, body,
                               IF file THEN FileName(file) ELSE product.image)))
                   EXCEPT ![slot] =
                       With(@, "sent",
                            IF file THEN With(Supplied(body), "image",
                                              FileName(file))
                                    ELSE Supplied(body))]
            /\ res' = NoResponse
    /\ UNCHANGED <<users, clock, issued, categories, products, movies,
                   createdBy, linked,
                   toggles>>

\* PUT /products/:id/toggle-active, up to the await of save()
ProductsToggleFind(slot, header, id) ==
    LET auth == AuthMiddleware(header, clock) IN
    /\ IF auth.status # 0
       THEN /\ res' = Rejected("productsToggle", auth)
            /\ UNCHANGED inflight
       ELSE IF FindProduct(id, auth.userId) = {}
       THEN /\ res' = Response("productsToggle", 404, auth.userId, id,
                               "Producto no encontrado")
            /\ UNCHANGED inflight
       ELSE /\ FreeSlot(slot)
            /\ inflight' = Suspend(slot, "save", "productsToggle", auth.userId,
                                   id, [activo |-> ~products[id].activo])
            /\ res' = NoResponse
    /\ UNCHANGED <<users, clock, issued, categories, products, movies, photos,
                   nextId, createdBy, linked,
                   toggles>>

\* a save() that writes the modified paths as an upsert: when the document is
\* gone it is inserted again under its id
ProductsSaveUpsert(slot) ==
    LET r == inflight[slot]
        gone == [name |-> Undefined, description |-> Undefined,
                 price |-> Undefined, image |-> 0, activo |-> TRUE,
                 categoryId |-> 0, userId |-> r.userId]
    IN
    /\ r.pc = "save"
    /\ r.op \in {"productsPut", "productsToggle"}
    /\ inflight' = Resume(slot)
    /\ products' = With(products, r.id,
                        Apply(IF r.id \in DOMAIN products THEN products[r.id]
                                                          ELSE gone, r.set))
    /\ linked' = IF "image" \in DOMAIN r.set
                 THEN linked \cup {r.set.image} ELSE linked
    /\ res' = [Response(r.op, 200, r.userId, r.id,
                        IF r.op = "productsToggle"
                        THEN "Estado actualizado" ELSE "")
                 EXCEPT !.activo = products'[r.id].activo,
                        !.sent = IF r.op = "productsPut" THEN r.sent
                                                         ELSE Empty]
    /\ toggles' = IF r.op = "productsToggle"
                  THEN [toggles EXCEPT ![r.id] = (@ + 1) % 2]
                  ELSE toggles
    /\ UNCHANGED <<users, clock, issued, categories, movies, photos, nextId,
                   createdBy>>

\* product.save() reaches the database and the handler answers: the modified
\* paths are written to the stored document; DocumentNotFoundError (caught,
\* 500) when it is gone
ProductsSave(slot) ==
    LET r == inflight[slot] IN
    /\ r.pc = "save"
    /\ r.op \in {"productsPut", "productsToggle"}
    /\ inflight' = Resume(slot)
    /\ IF r.id \notin DOMAIN products
       THEN /\ res' = Response(r.op, 500, r.userId, r.id,
                               "Error al actualizar")
            /\ UNCHANGED <<products, linked>>
       ELSE /\ products' = [products EXCEPT ![r.id] = Apply(@, r.set)]
            /\ linked' = IF "image" \in DOMAIN r.set
                         THEN linked \cup {r.set.image} ELSE linked
            /\ res' = [Response(r.op, 200, r.userId, r.id,
                                IF r.op = "productsToggle"
                                THEN "Estado actualizado" ELSE "")
                         EXCEPT !.activo = Apply(products[r.id], r.set).activo,
                                !.sent = IF r.op = "productsPut" THEN r.sent
                                                                 ELSE Empty]
    /\ toggles' = IF r.op = "productsToggle" /\ res'.status = 200
                  THEN [toggles EXCEPT ![r.id] = (@ + 1) % 2]
                  ELSE toggles
    /\ UNCHANGED <<users, clock, issued, categories, movies, photos, nextId,
                   createdBy>>

\* DELETE /products/:id : findOneAndDelete({ _id, userId })
ProductsDelete(header, id) ==
    LET auth == AuthMiddleware(header, clock) IN
    /\ IF auth.status # 0
       THEN /\ res' = Rejected("productsDelete", auth)
            /\ UNCHANGED products
       ELSE IF FindProduct(id, auth.userId) = {}
       THEN /\ res' = Response("productsDelete", 404, auth.userId, id,
                               "Producto no encontrado")
            /\ UNCHANGED products
       ELSE /\ products' = Without(products, id)
            /\ res' = Response("productsDelete", 200, auth.userId, id,
                               "Producto eliminado")
    /\ UNCHANGED <<users, clock, issued, categories, movies, photos, nextId,
                   inflight, createdBy, linked,
                   toggles>>

----------------------------------------------------------------------------
(* Movies (lines 588-677).                                                 *)

FullMovie == [name |-> "m1", genre |-> "g", description |-> "d",
              dateTime |-> "2025-01-01T20:00"]

\* the text fields of the bodies of POST /movies
MovieBodies ==
    {FullMovie,
     [name |-> "", genre |-> "g", description |-> "d",
      dateTime |-> "2025-01-01T20:00"],
     [name |-> "m1", genre |-> "g", description |-> "d",
      dateTime |-> Undefined],
     [name |-> "m1", genre |-> "g", description |-> "d",
      dateTime |-> "not a date"]}

\* the bodies of PUT /movies/:id : the fields the client chose to send
MovieUpdates ==
    {Empty, [name |-> "m2"], [name |-> ""], [dateTime |-> "not a date"]}
    \cup {[userId |-> u] : u \in DOMAIN users}

\* new Date(v) is a valid date
ValidDate(v) == v = "2025-01-01T20:00"

\* Movie.find() without the owner filter, as GET /movies/public runs it
FindMoviesPublic(userId) == DOMAIN movies

\* Movie.find({ userId })
FindMovies(userId) ==
    {m \in DOMAIN movies : movies[m].userId = userId}

\* Movie.findOne({ _id, userId })
FindMovie(id, userId) ==
    {m \in DOMAIN movies : m = id /\ movies[m].userId = userId}

\* Movie.findById(id), as findByIdAndUpdate / findByIdAndDelete match
FindMovieById(id) ==
    {m \in DOMAIN movies : m = id}

\* GET /movies
MoviesGet(header) ==
    LET auth == AuthMiddleware(header, clock) IN
    /\ res' = IF auth.status # 0
              THEN Rejected("moviesGet", auth)
              ELSE [Response("moviesGet", 200, auth.userId, 0, "")
                      EXCEPT !.list = FindMovies(auth.userId)]
    /\ UNCHANGED <<users, clock, issued,
                   toggles>>
    /\ catalogUnchanged

\* POST /movies : authMiddleware, then upload.single("image"), then the handler
MoviesPost(header, body, file) ==
    LET auth == AuthMiddleware(header, clock) IN
    /\ IF auth.status # 0
       THEN /\ res' = Rejected("moviesPost", auth)
            /\ UNCHANGED <<movies, photos, nextId, createdBy, linked>>
       ELSE /\ file => nextId.file <= MaxFiles
            /\ photos' = Upload(file)
            /\ IF \/ Falsy(body.name) \/ Falsy(body.genre)
                  \/ Falsy(body.description) \/ Falsy(body.dateTime)
               THEN /\ res' = Response("moviesPost", 400, auth.userId, 0,
                                       "Todos los campos son obligatorios")
                    /\ nextId' = FreshFile(file, nextId)
                    /\ UNCHANGED <<movies, createdBy, linked>>
               ELSE IF ~file
               THEN /\ res' = Response("moviesPost", 400, auth.userId, 0,
                                       "La imagen es obligatoria")
                    /\ UNCHANGED <<movies, nextId, createdBy, linked>>
               ELSE IF ~ValidDate(body.dateTime)
               THEN \* dateTime is an Invalid Date: save() rejects, 500
                    /\ res' = Response("moviesPost", 500, auth.userId, 0,
                                       "Error al crear pelicula")
                    /\ nextId' = FreshFile(file, nextId)
                    /\ UNCHANGED <<movies, createdBy, linked>>
               ELSE LET id == nextId.movie IN
                    /\ CanCreate
                    /\ movies' = With(movies, id,
                           [name |-> body.name,
                            image |-> FileName(file),
                            genre |-> body.genre,
                            description |-> body.description,
                            dateTime |-> body.dateTime,
                            userId |-> auth.userId])
                    /\ nextId' = FreshFile(file, Fresh("movie"))
                    /\ createdBy' = Record("movie", id, auth.userId)
                    /\ linked' = linked \cup {nextId.file}
                    /\ res' = Response("moviesPost", 201, auth.userId, id, "")
    /\ UNCHANGED <<users, clock, issued, categories, products, inflight,
                   toggles>>

\* updateData of PUT /movies/:id : req.body, with image set when a file came
UpdateData(body, file) ==
    IF file THEN With(body, "image", FileName(file)) ELSE body

\* PUT /movies/:id, up to the await of findByIdAndUpdate
MoviesPutFind(slot, header, id, body, file) ==
    LET auth == AuthMiddleware(header, clock) IN
    /\ IF auth.status # 0
       THEN /\ res' = Rejected("moviesPut", auth)
            /\ UNCHANGED <<photos, nextId, inflight>>
       ELSE /\ file => nextId.file <= MaxFiles
            /\ photos' = Upload(file)
            /\ nextId' = FreshFile(file, nextId)
            /\ IF FindMovie(id, auth.userId) = {}
               THEN /\ res' = Response("moviesPut", 404, auth.userId, id,
                                       "Pelicula no encontrada o no autorizada")
                    /\ UNCHANGED inflight
               ELSE /\ FreeSlot(slot)
                    /\ inflight' = Suspend(slot, "update", "moviesPut",
                                           auth.userId, id,
                                           UpdateData(body, file))
                    /\ res' = NoResponse
    /\ UNCHANGED <<users, clock, issued, categories, products, movies,
                   createdBy, linked,
                   toggles>>

\* Movie.findByIdAndUpdate(id, updateData, { new: true }) reaches the database
\* and the handler answers; null (answered with 200) when the movie is gone
MoviesPutUpdate(slot) ==
    LET r == inflight[slot] IN
    /\ r.pc = "update"
    /\ inflight' = Resume(slot)
    /\ IF "dateTime" \in DOMAIN r.set /\ ~ValidDate(r.set.dateTime)
       THEN /\ res' = Response("moviesPut", 500, r.userId, r.id,
                               "Error al actualizar la pelicula")
            /\ UNCHANGED <<movies, linked>>
       ELSE IF FindMovieById(r.id) = {}
       THEN /\ res' = Response("moviesPut", 200, r.userId, 0, "null")
            /\ UNCHANGED <<movies, linked>>
       ELSE /\ movies' = [movies EXCEPT ![r.id] = Apply(@, r.set)]
            /\ linked' = IF "image" \in DOMAIN r.set
                         THEN linked \cup {r.set.image} ELSE linked
            /\ res' = [Response("moviesPut", 200, r.userId, r.id, "")
                         EXCEPT !.sent = r.set]
    /\ UNCHANGED <<users, clock, issued, categories, products, photos, nextId,
                   createdBy,
                   toggles>>

\* DELETE /movies/:id : findByIdAndDelete(id)
MoviesDelete(header, id) ==
    LET auth == AuthMiddleware(header, clock) IN
    /\ IF auth.status # 0
       THEN /\ res' = Rejected("moviesDelete", auth)
            /\ UNCHANGED movies
       ELSE IF FindMovieById(id) = {}
       THEN /\ res' = Response("moviesDelete", 404, auth.userId, id,
                               "Pelicula no encontrada")
            /\ UNCHANGED movies
       ELSE /\ movies' = Without(movies, id)
            /\ res' = Response("moviesDelete", 200, auth.userId, id,
                               "Pelicula eliminada con exito")
    /\ UNCHANGED <<users, clock, issued, categories, products, photos, nextId,
                   inflight, createdBy, linked,
                   toggles>>

----------------------------------------------------------------------------
(* Specifications.                                                         *)

CategoryIds == 1 .. MaxDocs
ProductIds == 1 .. MaxDocs
MovieIds == 1 .. MaxDocs

EmptyCatalog ==
    /\ categories = Empty
    /\ products = Empty
    /\ movies = Empty
    /\ photos = {}
    /\ nextId = [cat |-> 1, prod |-> 1, movie |-> 1, file |-> 1]
    /\ inflight = [s \in Slots |-> Idle]
    /\ res = NoResponse
    /\ createdBy = [cat |-> Empty, prod |-> Empty, movie |-> Empty]
    /\ linked = {}
    /\ toggles = [p \in ProductIds |-> 0]

\* the server has started on empty collections
Init ==
    /\ users = Empty
    /\ clock = 0
    /\ issued = {}
    /\ EmptyCatalog

\* registration, login and the passing of time, with GET /categories as the
\* protected route
Next ==
    \/ \E e \in Emails, p \in Passwords, s \in Salts : Register(e, p, s)
    \/ \E e \in Emails, p \in Passwords : Login(e, p)
    \/ \E t \in Instants : Tick(t)
    \/ \E h \in Headers : CategoriesGet(h)

Spec == Init /\ [][Next]_vars

\* two users have registered and logged in at time 0
InitCatalog ==
    /\ users = [u \in {1, 2} |->
                   [email |-> IF u = 1 THEN "a@x" ELSE "b@x",
                    password |-> BcryptHash("p", u)]]
    /\ clock = 0
    /\ issued = {JwtSign(u, 0) : u \in {1, 2}}
    /\ EmptyCatalog


\* the category routes, with the creation and listing of products; one
\* request at a time is suspended
NextShop ==
    \/ \E h \in Headers, n \in CategoryNames : CategoriesPost(h, n)
    \/ \E h \in Headers : CategoriesGet(h)
    \/ \E h \in Headers, c \in CategoryIds, n \in CategoryRenames :
          CategoriesPut(h, c, n)
    \/ \E h \in Headers, c \in CategoryIds : CategoriesDeleteFind(1, h, c)
    \/ CategoriesDeleteMany(1)
    \/ CategoriesDeleteRespond(1)
    \/ \E h \in Headers, b \in ProductBodies, f \in BOOLEAN,
          c \in {0} \cup CategoryIds : ProductsPost(h, b, f, c)
    \/ \E h \in Headers, c \in CategoryIds : ProductsGet(h, c)

SpecShop == InitCatalog /\ [][NextShop]_vars

\* the product routes; one request at a time is suspended
NextProducts ==
    \/ \E h \in Headers, f \in BOOLEAN : ProductsPost(h, FullProduct, f, 0)
    \/ \E h \in Headers, p \in ProductIds, b \in ProductUpdates,
          f \in BOOLEAN : ProductsPutFind(1, h, p, b, f)
    \/ \E h \in Headers, p \in ProductIds : ProductsToggleFind(1, h, p)
    \/ ProductsSave(1)
    \/ \E h \in Headers, p \in ProductIds : ProductsDelete(h, p)

SpecProducts == InitCatalog /\ [][NextProducts]_vars

\* concurrent toggle-active requests, up to MaxInflight suspended at save()
NextToggle ==
    \/ \E h \in Headers, b \in ProductBodies : ProductsPost(h, b, FALSE, 0)
    \/ \E s \in Slots, h \in Headers, p \in ProductIds :
          ProductsToggleFind(s, h, p)
    \/ \E s \in Slots : ProductsSave(s)
    \/ \E h \in Headers, p \in ProductIds : ProductsDelete(h, p)

SpecToggle == InitCatalog /\ [][NextToggle]_vars

\* the movie routes; one request at a time is suspended
NextMovies ==
    \/ \E h \in Headers : MoviesGet(h)
    \/ \E h \in Headers, b \in MovieBodies, f \in BOOLEAN : MoviesPost(h, b, f)
    \/ \E h \in Headers, m \in MovieIds, b \in MovieUpdates, f \in BOOLEAN :
          MoviesPutFind(1, h, m, b, f)
    \/ MoviesPutUpdate(1)
    \/ \E h \in Headers, m \in MovieIds : MoviesDelete(h, m)

SpecMovies == InitCatalog /\ [][NextMovies]_vars

\* creation, deletion and the owner's listing of the three collections
NextList ==
    \/ \E h \in Headers, n \in CategoryNames : CategoriesPost(h, n)
    \/ \E h \in Headers : CategoriesGet(h)
    \/ \E h \in Headers, c \in {0} \cup CategoryIds :
          ProductsPost(h, FullProduct, FALSE, c)
    \/ \E h \in Headers, c \in CategoryIds : ProductsGet(h, c)
    \/ \E h \in Headers, p \in ProductIds : ProductsDelete(h, p)
    \/ \E h \in Headers : MoviesGet(h)
    \/ \E h \in Headers, f \in BOOLEAN : MoviesPost(h, FullMovie, f)
    \/ \E h \in Headers, m \in MovieIds : MoviesDelete(h, m)

SpecList == InitCatalog /\ [][NextList]_vars

\* the Authorization headers of the logged-in users
Authenticated == {[scheme |-> "Bearer", token |-> t] : t \in issued}

\* updates and toggles that overlap deletes of the same product or movie:
\* logged-in users send requests on the identifiers handed out so far; one
\* request at a time is suspended between its findOne and its write
NextDelete ==
    \/ \E h \in Authenticated : ProductsPost(h, FullProduct, FALSE, 0)
    \/ \E h \in Authenticated, p \in DOMAIN createdBy.prod,
          b \in ProductUpdates : ProductsPutFind(1, h, p, b, FALSE)
    \/ \E h \in Authenticated, p \in DOMAIN createdBy.prod :
          ProductsToggleFind(1, h, p)
    \/ ProductsSave(1)
    \/ \E h \in Authenticated, p \in DOMAIN createdBy.prod :
          ProductsDelete(h, p)
    \/ \E h \in Authenticated : MoviesPost(h, FullMovie, TRUE)
    \/ \E h \in Authenticated, m \in DOMAIN createdBy.movie :
          MoviesPutFind(1, h, m, [name |-> "m2"], FALSE)
    \/ MoviesPutUpdate(1)
    \/ \E h \in Authenticated, m \in DOMAIN createdBy.movie :
          MoviesDelete(h, m)

SpecDelete == InitCatalog /\ [][NextDelete]_vars

----------------------------------------------------------------------------
(* Properties.                                                             *)

Bearer(t) == [scheme |-> "Bearer", token |-> t]

\* no request is suspended at an await
Quiescent == \A s \in Slots : inflight[s] = Idle

\* the collection a route works on, given the three collections
CollectionOf(op, cs, ps, ms) ==
    IF op \in {"categoriesPost", "categoriesGet", "categoriesPut",
               "categoriesDelete"} THEN cs
    ELSE IF op \in {"moviesGet", "moviesPost", "moviesPut", "moviesDelete"}
         THEN ms
         ELSE ps

MutatingOps == {"categoriesPut", "categoriesDelete", "productsPut",
                "productsToggle", "productsDelete", "moviesPut",
                "moviesDelete"}

\* the step answered an update, toggle or delete of user res'.userId that
\* names a document owned by somebody else
ForeignRequest ==
    LET before == CollectionOf(res'.op, categories, products, movies) IN
    /\ res'.op \in MutatingOps
    /\ res'.userId # 0
    /\ res'.id \in DOMAIN before
    /\ before[res'.id].userId # res'.userId

\* C1: an update, toggle-active or delete authenticated as A that names a
\* record owned by B answers 404 and leaves B's record present and unchanged.
C1_ForeignIsNotFound ==
    [][ForeignRequest =>
          LET before == CollectionOf(res'.op, categories, products, movies)
              after == CollectionOf(res'.op, categories', products', movies')
          IN /\ res'.status = 404
             /\ res'.id \in DOMAIN after
             /\ after[res'.id] = before[res'.id]]_vars

\* C2: every existing Category, Product and Movie is owned by the user it
\* was created by.
C2_OwnerNeverChanges ==
    /\ \A c \in DOMAIN categories : categories[c].userId = createdBy.cat[c]
    /\ \A p \in DOMAIN products : products[p].userId = createdBy.prod[p]
    /\ \A m \in DOMAIN movies : movies[m].userId = createdBy.movie[m]

\* C3: a header that is missing or not a Bearer header is answered 401, a
\* token that fails verification 403, and a step that answers 401 or 403
\* creates, changes and deletes no record and stores no image.
C3_RejectedBeforeProcessing ==
    [][/\ \A h \in Headers :
            /\ h.scheme # "Bearer" => AuthMiddleware(h, clock).status = 401
            /\ h.scheme = "Bearer" /\ ~JwtVerify(h.token, clock)
                  => AuthMiddleware(h, clock).status = 403
       /\ res'.status \in {401, 403}
             => UNCHANGED <<categories, products, movies, photos>>]_vars

\* C4: when DELETE /categories/:id answers success, no product of the
\* caller references the deleted category.
C4_NoProductLeftInDeletedCategory ==
    res.op = "categoriesDelete" /\ res.status = 200
        => FindProducts(res.id, res.userId) = {}

\* C5: a toggle-active request answers the value it wrote, and a product on
\* which an even number of toggle-active requests completed has the active
\* flag it was created with.
C5_TwoTogglesRestore ==
    /\ res.op = "productsToggle" /\ res.status = 200
          /\ res.id \in DOMAIN products
          => res.activo = products[res.id].activo
    /\ \A p \in DOMAIN products : toggles[p] = 0 => products[p].activo = TRUE

\* C6: the list an owner-scoped GET answers holds exactly the stored records
\* of the caller (for products: of the caller and the named category).
C6_ListIsExactlyOwned ==
    /\ res.op = "categoriesGet" /\ res.status = 200
          => /\ \A c \in res.list :
                   c \in DOMAIN categories /\ categories[c].userId = res.userId
             /\ \A c \in DOMAIN categories :
                   categories[c].userId = res.userId => c \in res.list
    /\ res.op = "productsGet" /\ res.status = 200
          => /\ \A p \in res.list :
                   /\ p \in DOMAIN products
                   /\ products[p].userId = res.userId
                   /\ products[p].categoryId = res.id
             /\ \A p \in DOMAIN products :
                   /\ products[p].userId = res.userId
                   /\ products[p].categoryId = res.id
                   => p \in res.list
    /\ res.op = "moviesGet" /\ res.status = 200
          => /\ \A m \in res.list :
                   m \in DOMAIN movies /\ movies[m].userId = res.userId
             /\ \A m \in DOMAIN movies :
                   movies[m].userId = res.userId => m \in res.list

\* a list answered to a user while another user's movie is stored
C6_Witness ==
    /\ res.op = "moviesGet" /\ res.status = 200
    /\ res.list # {}
    /\ \E m \in DOMAIN movies : movies[m].userId # res.userId

\* the password user u registered with, and the answer of a login with
\* u's email and password p
Registered(u) == users[u].password.of
LoginOf(u, p) == LoginAnswer(FindUserByEmail(users[u].email), p)

C7_State ==
    /\ \A u \in DOMAIN users :
          /\ LoginOf(u, Registered(u)).status = 200
          /\ AuthMiddleware(Bearer(LoginOf(u, Registered(u)).token), clock)
                = [status |-> 0, userId |-> u]
          /\ \A p \in Passwords \ {Undefined, Registered(u)} :
                /\ LoginOf(u, p).status = 400
                /\ LoginOf(u, p).msg = "Credenciales incorrectas"
    /\ res.op = "login" /\ res.status = 200
          => /\ res.token \in issued
             /\ res.id \in DOMAIN users
             /\ AuthMiddleware(Bearer(res.token), clock)
                   = [status |-> 0, userId |-> res.id]

C7_Step ==
    /\ \A u \in DOMAIN users : u \in DOMAIN users' /\ users'[u] = users[u]
    /\ res'.op = "register" /\ res'.status # 201 => users' = users
    /\ res'.op = "register" /\ res'.status = 201
          => FindUserByEmail(users'[res'.id].email) = {}

C8_AcceptedThroughTheHour ==
    \A t \in issued :
        /\ t.iat <= clock /\ clock <= t.iat + ExpiresIn
              => AuthMiddleware(Bearer(t), clock) = [status |-> 0, userId |-> t.id]
        /\ clock > t.iat + ExpiresIn
              => AuthMiddleware(Bearer(t), clock).status = 403

\* C8, amended: an issued token is accepted as its user at every second
\* before issue + 1h and rejected with 403 from issue + 1h on, whatever else
\* happened; a protected route answers 200 only to an unexpired issued token.
C8_AcceptedBeforeTheHour ==
    /\ \A t \in issued :
          /\ t.iat <= clock
          /\ t.id \in DOMAIN users
          /\ clock < t.iat + ExpiresIn
                => AuthMiddleware(Bearer(t), clock) = [status |-> 0, userId |-> t.id]
          /\ clock >= t.iat + ExpiresIn
                => AuthMiddleware(Bearer(t), clock) = [status |-> 403, userId |-> 0]
    /\ res.op = "categoriesGet" /\ res.status = 200
          => \E t \in issued : t.id = res.userId /\ clock < t.iat + ExpiresIn

\* a protected request was answered 403 exactly one hour after a login
C8_Witness ==
    /\ res.op = "categoriesGet" /\ res.status = 403
    /\ \E t \in issued : clock = t.iat + ExpiresIn

\* the file f is the image of a stored product or movie
Referenced(f) ==
    \/ \E p \in DOMAIN products : products[p].image = f
    \/ \E m \in DOMAIN movies : movies[m].image = f

\* C9: once the requests have completed, every stored file that was ever
\* the image of a record is the image of an existing record.
C9_NoReleasedAssetRemains ==
    Quiescent => \A f \in photos \cap linked : Referenced(f)

\* C10: a create request of a category or movie that is refused for its
\* fields (every answer but 201, 401 and 403) answers 400 and adds no record.
C10_InvalidCreateIs400 ==
    [][res'.op \in {"categoriesPost", "moviesPost"}
          /\ res'.status \notin {201, 401, 403}
          => /\ res'.status = 400
             /\ UNCHANGED <<categories, movies>>]_vars

\* the step answered 200 to an update request of the owner of the record
OwnerUpdate ==
    LET before == CollectionOf(res'.op, categories, products, movies) IN
    /\ res'.op \in {"categoriesPut", "productsPut", "moviesPut"}
    /\ res'.status = 200
    /\ res'.id \in DOMAIN before
    /\ before[res'.id].userId = res'.userId

\* the field f of the update request was omitted, or is name, description
\* or price with an empty or falsy value
NotSupplied(f, sent) ==
    \/ f \notin DOMAIN sent
    \/ f \in {"name", "description", "price"} /\ Falsy(sent[f])

\* C11: an owner's update changes only the fields it supplies: an omitted
\* field, and a name, description or price supplied empty or falsy, keeps its
\* stored value; activo and categoryId are never changed by an update.
C11_UpdateChangesOnlySupplied ==
    [][OwnerUpdate =>
          LET before == CollectionOf(res'.op, categories, products, movies)
              after == CollectionOf(res'.op, categories', products', movies')
          IN  /\ res'.id \in DOMAIN after
              /\ \A f \in DOMAIN before[res'.id] :
                    NotSupplied(f, res'.sent) \/ f \in {"activo", "categoryId"}
                        => after[res'.id][f] = before[res'.id][f]]_vars

\* the records of a kind that were created and are no longer stored
Deleted(kind, stored) == DOMAIN createdBy[kind] \ DOMAIN stored

\* C12: deletion is permanent: a record whose delete was answered 200 is gone,
\* and no later step stores a record under the identifier of a deleted one,
\* also when an update or toggle that had read the record writes after the
\* delete.
C12_DeletionIsPermanent ==
    [][/\ res'.op \in {"categoriesDelete", "productsDelete", "moviesDelete"}
          /\ res'.status = 200
          => res'.id \in Deleted(CollectionOf(res'.op, "cat", "prod", "movie"),
                    CollectionOf(res'.op, categories', products', movies'))
       /\ Deleted("cat", categories) \cap DOMAIN categories' = {}
       /\ Deleted("prod", products) \cap DOMAIN products' = {}
       /\ Deleted("movie", movies) \cap DOMAIN movies' = {}]_vars

\* an update or toggle that had read a product answered, after its write, when
\* the product had been deleted in between
C12_Witness ==
    /\ res.op \in {"productsPut", "productsToggle"}
    /\ res.status = 500
    /\ res.id \in Deleted("prod", products)

====
